---- MODULE Spec2Model ----
(***************************************************************************)
(* Model of the mesh3d reconstruction pipeline (CNES/cars-mesh).           *)
(*                                                                         *)
(*   mesh3d/mesh3d_reconstruct.py   run(), main()                          *)
(*   mesh_3d/tools/mesh_io.py       serialize_mesh, mesh2ply, mesh2o3d     *)
(*   mesh_3d/core/filter.py         radius / statistical outlier filters   *)
(*   mesh3d/tools/handlers.py       PointCloud, Mesh                       *)
(*                                                                         *)
(* Mesh3DMachine (state_machine.py) and point_cloud_io.py are not part of  *)
(* the source tree: the definitions that stand for them are written from   *)
(* the specification and say so.                                           *)
(***************************************************************************)
EXTENDS Integers, Sequences, FiniteSets, TLC

(***************************************************************************)
(* Bounds of the model.                                                    *)
(***************************************************************************)
MaxSteps == 2
MaxPoints == 3

(***************************************************************************)
(* Strings: the path arithmetic of run(), mesh2ply and serialize_mesh.     *)
(***************************************************************************)
\* index of the last occurrence of character c in s[1..i], 0 when absent
RECURSIVE LastIndexOf(_, _, _)
LastIndexOf(s, c, i) ==
    IF i = 0 THEN 0
    ELSE IF SubSeq(s, i, i) = c THEN i
    ELSE LastIndexOf(s, c, i - 1)

\* filepath.split(".")[-1]
SplitLast(s, c) == SubSeq(s, LastIndexOf(s, c, Len(s)) + 1, Len(s))

\* os.path.join(a, b) for a relative b
PathJoin(a, b) == a \o "/" \o b

\* str.zfill(width)
RECURSIVE ZFill(_, _)
ZFill(s, width) == IF Len(s) >= width THEN s ELSE ZFill("0" \o s, width)

(***************************************************************************)
(* Data entities.                                                          *)
(*                                                                         *)
(* A point cloud data frame is the sequence of its row labels (the pandas  *)
(* index); the row at position i is the i-th element.  A Mesh is its       *)
(* point cloud, its face table (None, or a sequence of <<p1, p2, p3>>),    *)
(* and `by`, the ordinal of the step whose output it is (0: the input).    *)
(***************************************************************************)
Positions(n) == 0 .. (n - 1)

\* pandas RangeIndex(n): labels 0 .. n-1
RangeIndex(n) == [i \in 1 .. n |-> i - 1]

\* the index triples over n vertices
Triangles(n) ==
    { <<a, b, c>> : a \in Positions(n), b \in Positions(n), c \in Positions(n) }

\* the face tables a meshing or simplification method may produce over n
\* vertices: no face at all, or one triangle p1 < p2 < p3 < n
FaceTables(n) ==
    { <<>> } \cup { <<t>> : t \in { u \in Triangles(n) : u[1] < u[2] /\ u[2] < u[3] } }

\* Mesh.__init__: pcd, df (None when hasDf is FALSE), image_texture_path = None
Mesh(pcd, hasDf, faces, by) ==
    [pcd |-> pcd, hasDf |-> hasDf, faces |-> faces, by |-> by]

\* mesh.df is not None
DfIsNotNone(mesh) == mesh.hasDf

\* mesh.df.empty
DfEmpty(mesh) == mesh.faces = <<>>

(***************************************************************************)
(* filter.py: the outlier filters.  ind_valid_pts is the list of positions *)
(* Open3D reports as inliers (ascending); the filter's result is either a  *)
(* data frame or an exception.                                             *)
(***************************************************************************)
Returned(df) == [raised |-> "", df |-> df]
Raised(exc) == [raised |-> exc, df |-> <<>>]

\* the ascending position lists over n points
RECURSIVE SortedSeq(_)
SortedSeq(S) ==
    IF S = {} THEN <<>>
    ELSE LET m == CHOOSE x \in S : \A y \in S : x <= y
         IN  <<m>> \o SortedSeq(S \ {m})

IndexLists(n) == { SortedSeq(S) : S \in SUBSET Positions(n) }

Labels(df) == { df[i] : i \in 1 .. Len(df) }

\* df.loc gone wrong: every row selected comes twice
LocTwice(df, labels) ==
    IF \A i \in 1 .. Len(labels) : labels[i] \in Labels(df)
    THEN Returned(labels \o labels)
    ELSE Raised("KeyError")

\* df.loc[labels]: the rows whose LABEL is listed, in the order listed;
\* KeyError when a listed label is not in the index
Loc(df, labels) ==
    IF \A i \in 1 .. Len(labels) : labels[i] \in Labels(df)
    THEN Returned(labels)
    ELSE Raised("KeyError")

\* radius_filtering_outliers_o3: ind_valid_pts comes from
\* remove_radius_outlier; a bare `raise` with no active exception is a
\* RuntimeError
radius_filtering_returns_empty(df_pcd, ind_valid_pts) == Loc(df_pcd, ind_valid_pts)

radius_filtering_outliers_o3(df_pcd, ind_valid_pts) ==
    LET sel == Loc(df_pcd, ind_valid_pts)
    IN  IF sel.raised # "" THEN sel
        ELSE IF sel.df = <<>> THEN Raised("RuntimeError")
        ELSE Returned(sel.df)

\* statistical_filtering_outliers_o3d: ind_valid_pts comes from
\* remove_statistical_outlier
statistical_filtering_outliers_o3d(df_pcd, ind_valid_pts) ==
    LET sel == Loc(df_pcd, ind_valid_pts)
    IN  IF sel.raised # "" THEN sel
        ELSE IF sel.df = <<>> THEN Raised("RuntimeError")
        ELSE Returned(sel.df)

(***************************************************************************)
(* The step registry and the transition check of Mesh3DMachine, written    *)
(* from the specification (sections 4.2 and 4.3).                          *)
(***************************************************************************)
PointCloudOnly == "PointCloud"
MeshWithFaces == "Mesh"
Either == "Either"

StepKey(step) == <<step.action, step.method>>

\* (action, method) -> declared input kind, declared output kind
Registry ==
    [key \in { <<"filter", "radius_o3d">>, <<"filter", "statistics_o3d">>,
               <<"mesh", "poisson">>, <<"simplify_mesh", "garland-heckbert">> } |->
        CASE key[1] = "filter" -> [in |-> PointCloudOnly, out |-> PointCloudOnly]
          [] key[1] = "mesh" -> [in |-> PointCloudOnly, out |-> MeshWithFaces]
          [] OTHER -> [in |-> MeshWithFaces, out |-> MeshWithFaces]]

Registered(step) == StepKey(step) \in DOMAIN Registry

\* the data kind of the configured initial state
InitialKind(initial_state) ==
    IF initial_state = "initial_mesh" THEN MeshWithFaces ELSE PointCloudOnly

\* Compatible with the kinds never compared
CompatibleAlways(kind, in) == TRUE

\* a step that declares input kind `in` may follow a state of kind `kind`
Compatible(kind, in) == in = Either \/ in = kind

\* the 1-based index of the first step of `steps` from position i on that is
\* unknown to the registry or whose input kind does not follow from `kind`;
\* 0 when there is none
RECURSIVE FirstViolation(_, _, _)
FirstViolation(steps, i, kind) ==
    IF i > Len(steps) THEN 0
    ELSE IF ~Registered(steps[i]) THEN i
    ELSE IF ~Compatible(kind, Registry[StepKey(steps[i])].in) THEN i
    ELSE FirstViolation(steps, i + 1, Registry[StepKey(steps[i])].out)

\* Mesh3DMachine.check_transitions(cfg): 0 when it returns, the offending
\* step index when it raises
check_transitions(config) ==
    FirstViolation(config.state_machine, 1, InitialKind(config.initial_state))

(***************************************************************************)
(* Serialization.  The disk is a function from file path to file content;  *)
(* a serializer yields the new disk or an exception.                       *)
(***************************************************************************)
EmptyDisk == [p \in {} |-> 0]

Written(d, path) == [raised |-> "", disk |-> d, path |-> path]
NotWritten(exc, d) == [raised |-> exc, disk |-> d, path |-> ""]

\* mesh2o3d: the TriangleMesh built from the x, y, z of the vertices and the
\* p1, p2, p3 of the faces
mesh2o3d(mesh) ==
    [format |-> "ply", vertices |-> Len(mesh.pcd), triangles |-> mesh.faces,
     by |-> mesh.by]

\* write_triangle_mesh_o3d(filepath, mesh)
write_triangle_mesh_o3d(d, filepath, mesh) ==
    (filepath :> mesh2o3d(mesh)) @@ d

\* mesh2ply(filepath, mesh)
mesh2ply(d, filepath, mesh) ==
    IF SplitLast(filepath, ".") # "ply"
    THEN NotWritten("ValueError", d)
    ELSE LET filepath_mesh == SubSeq(filepath, 1, Len(filepath) - 4) \o "_mesh.ply"
         IN  Written(write_triangle_mesh_o3d(d, filepath_mesh, mesh), filepath_mesh)

\* pcd_io.df2csv(filepath, df), from the specification: the file at filepath
df2csv(d, filepath, mesh) ==
    (filepath :> [format |-> "csv", vertices |-> 0, triangles |-> mesh.faces,
                  by |-> mesh.by]) @@ d

\* serialize_mesh with no look at the extension of filepath
serialize_mesh_unchecked(d, filepath, mesh, extension) ==
    IF extension = "ply"
    THEN Written(write_triangle_mesh_o3d(d, filepath, mesh), filepath)
    ELSE Written(df2csv(d, filepath, mesh), filepath)

\* serialize_mesh(filepath, mesh, extension)
serialize_mesh(d, filepath, mesh, extension) ==
    IF SplitLast(filepath, ".") # extension
    THEN NotWritten("ValueError", d)
    ELSE IF extension = "ply" THEN mesh2ply(d, filepath, mesh)
    ELSE IF extension = "csv" THEN Written(df2csv(d, filepath, mesh), filepath)
    ELSE NotWritten("NotImplementedError", d)

\* Mesh.serialize(filepath, extension)
MeshSerialize(d, mesh, filepath, extension) ==
    serialize_mesh(d, filepath, mesh, extension)

\* PointCloud.serialize(filepath, extension) -> serialize_point_cloud, from
\* the specification: serialize(entity, path, format) writes the file at path
PointCloudSerialize(d, mesh, filepath, extension) ==
    Written((filepath :> [format |-> extension, vertices |-> Len(mesh.pcd),
                          triangles |-> <<>>, by |-> mesh.by]) @@ d,
            filepath)

\* os.listdir(folder)
ListDir(d, folder) ==
    { p \in DOMAIN d : SubSeq(p, 1, LastIndexOf(p, "/", Len(p)) - 1) = folder }

(***************************************************************************)
(* The configuration: cfg["state_machine"] is the ordered step list, each  *)
(* step an action, a method and an optional save_output flag ("absent"     *)
(* when the key is not in the step).                                       *)
(***************************************************************************)
SaveFlags == {"absent", "true", "false"}

StepKeys == DOMAIN Registry \cup { <<"filter", "unknown">> }

Steps ==
    { [action |-> key[1], method |-> key[2], save_output |-> flag] :
        key \in StepKeys, flag \in SaveFlags }

RECURSIVE SeqsUpTo(_, _)
SeqsUpTo(S, n) ==
    IF n = 0 THEN { <<>> }
    ELSE SeqsUpTo(S, n - 1) \cup
         { Append(q, x) : q \in { r \in SeqsUpTo(S, n - 1) : Len(r) = n - 1 }, x \in S }

OutputDir == "/out"

Configs ==
    [state_machine : SeqsUpTo(Steps, MaxSteps),
     initial_state : {"initial_pcd", "initial_mesh"},
     output_dir : {OutputDir}]

\* read_input_path(cfg["input_path"]): a point cloud (no face table) for
\* an initial point-cloud state, a mesh (face table possibly without rows)
\* for an initial mesh state
InputEntities(initial_state) ==
    IF initial_state = "initial_mesh"
    THEN UNION { { Mesh(RangeIndex(n), TRUE, f, 0) : f \in FaceTables(n) } :
                 n \in 1 .. MaxPoints }
    ELSE { Mesh(RangeIndex(n), FALSE, <<>>, 0) : n \in 1 .. MaxPoints }

(***************************************************************************)
(* Pieces of run() and main().                                             *)
(***************************************************************************)
\* "save_output" in step and step["save_output"]
SaveRequested(step) == step.save_output = "true"

\* os.path.join(cfg["output_dir"], "intermediate_results")
IntermediateFolder(config) == PathJoin(config.output_dir, "intermediate_results")

\* the path run() builds for step k (0-based), without its extension
IntermediateFilepath(config, kk, step) ==
    PathJoin(IntermediateFolder(config),
             ZFill(ToString(kk + 1), 2) \o "_" \o step.action \o "_" \o step.method)

\* k == 0 and os.listdir(intermediate_folder)
NotEmptyWarningDue(kk, d, folder) == kk = 0 /\ ListDir(d, folder) # {}

\* the serialization run() and main() choose: "ply" by Mesh.serialize when
\* df is not None, "laz" by PointCloud.serialize otherwise
ExtensionFor(mesh) == IF DfIsNotNone(mesh) THEN "ply" ELSE "laz"

SerializerFor(mesh) == IF DfIsNotNone(mesh) THEN "mesh" ELSE "pcd"

SerializeEntity(d, mesh, filepath) ==
    IF SerializerFor(mesh) = "mesh"
    THEN MeshSerialize(d, mesh, filepath \o "." \o ExtensionFor(mesh), ExtensionFor(mesh))
    ELSE PointCloudSerialize(d, mesh, filepath \o "." \o ExtensionFor(mesh), ExtensionFor(mesh))

\* main(): cfg["output_name"] defaults to "output_mesh3d"
OutputName == "output_mesh3d"

(***************************************************************************)
(* Mesh3DMachine.run(step, cfg), from the specification (section 4.4): the *)
(* step's callable is applied to the held entity and either raises or      *)
(* yields the entity that replaces it.  The meshing and simplification     *)
(* methods are external: any face table over the vertices, or an error.    *)
(***************************************************************************)
StepRaised(exc, mesh) == [raised |-> exc, mesh |-> mesh]
StepReturned(mesh) == [raised |-> "", mesh |-> mesh]

FilterOutcome(res, mesh, ord) ==
    IF res.raised # "" THEN StepRaised(res.raised, mesh)
    ELSE StepReturned(Mesh(res.df, mesh.hasDf, mesh.faces, ord))

StepOutcomes(step, mesh, ord) ==
    CASE StepKey(step) = <<"filter", "radius_o3d">> ->
           { FilterOutcome(radius_filtering_outliers_o3(mesh.pcd, ind), mesh, ord) :
               ind \in IndexLists(Len(mesh.pcd)) }
      [] StepKey(step) = <<"filter", "statistics_o3d">> ->
           { FilterOutcome(statistical_filtering_outliers_o3d(mesh.pcd, ind), mesh, ord) :
               ind \in IndexLists(Len(mesh.pcd)) }
      [] OTHER ->
           { StepRaised("StepError", mesh) } \cup
           { StepReturned(Mesh(RangeIndex(Len(mesh.pcd)), TRUE, f, ord)) :
               f \in FaceTables(Len(mesh.pcd)) }

(***************************************************************************)
(* State.                                                                  *)
(*   cfg        the checked configuration                                  *)
(*   in_mesh    main()'s local `mesh`: the entity read from the input path *)
(*   mesh_data  mesh3d_machine.mesh_data, the entity the machine holds     *)
(*   pc, k      where run()/main() stand, and the loop index of run()      *)
(*   disk, dirs the files (path -> content) and directories on disk        *)
(*   warnings   the logger.warning messages emitted                        *)
(*   trace      what the run did, in order: check, step k, write k         *)
(*   writes     one record per serialization performed                     *)
(*   returned   <<entity>> once run() has returned, <<>> before            *)
(*   raised     <<exception>> once an exception left run(), <<>> before    *)
(***************************************************************************)
VARIABLES cfg, in_mesh, mesh_data, pc, k, disk, dirs, warnings, trace, writes, returned, raised

(***************************************************************************)
(* State of the data handlers taken on their own (handlers.py).            *)
(*   hm    a Mesh object: its point cloud, face table, texture path and    *)
(*         Open3D mesh                                                     *)
(*   hres  the last call made on hm and what it gave                       *)
(*   cdf   the red, green, blue columns of a point cloud, one row a point  *)
(*   o3d   what set_o3d_colors / set_o3d_vertex_colors gave for cdf        *)
(***************************************************************************)
VARIABLES hm, hres, cdf, o3d

hvars == <<hm, hres, cdf, o3d>>

pvars == <<cfg, in_mesh, mesh_data, pc, k, disk, dirs, warnings, trace, writes, returned, raised>>

vars == <<cfg, in_mesh, mesh_data, pc, k, disk, dirs, warnings, trace, writes, returned, raised,
          hm, hres, cdf, o3d>>

\* no handler object is under test
HandlersIdle == hm = <<>> /\ hres = <<>> /\ cdf = <<>> /\ o3d = <<>>

EmptyWarning == "State machine is empty. Returning the initial data."
NotEmptyWarning == "Directory is not empty. Some files might be overwritten."

\* main() up to the call of run(): output_dir exists, the input is read and
\* the machine is built around it.  The intermediate folder may be left
\* over from an earlier run, with or without files in it.
Init ==
    /\ cfg \in Configs
    /\ in_mesh \in InputEntities(cfg.initial_state)
    /\ mesh_data = in_mesh
    /\ pc = "run"
    /\ k = 0
    /\ \E left \in {"absent", "empty", "files"} :
          /\ dirs = IF left = "absent" THEN {cfg.output_dir}
                    ELSE {cfg.output_dir, IntermediateFolder(cfg)}
          /\ disk = IF left = "files"
                    THEN (PathJoin(IntermediateFolder(cfg), "old.laz") :>
                          [format |-> "laz", vertices |-> 0, triangles |-> <<>>, by |-> -1])
                    ELSE EmptyDisk
    /\ warnings = {}
    /\ trace = <<>>
    /\ writes = <<>>
    /\ returned = <<>>
    /\ raised = <<>>
    /\ HandlersIdle

CurrentStep == cfg.state_machine[k + 1]

\* RunEmpty without its warning
RunEmptySilent ==
    /\ pc = "run"
    /\ cfg.state_machine = <<>>
    /\ pc' = "return"
    /\ UNCHANGED <<hvars, cfg, in_mesh, mesh_data, k, disk, dirs, warnings, trace, writes,
                   returned, raised>>

\* run(), lines 51-53: no step is configured
RunEmpty ==
    /\ pc = "run"
    /\ cfg.state_machine = <<>>
    /\ warnings' = warnings \cup {EmptyWarning}
    /\ pc' = "return"
    /\ UNCHANGED <<hvars, cfg, in_mesh, mesh_data, k, disk, dirs, trace, writes, returned, raised>>

\* CheckPasses without the call of check_transitions
CheckSkipped ==
    /\ pc = "run"
    /\ cfg.state_machine # <<>>
    /\ pc' = "step"
    /\ k' = 0
    /\ UNCHANGED <<hvars, cfg, in_mesh, mesh_data, disk, dirs, warnings, trace, writes,
                   returned, raised>>

\* run(), lines 55-59: check_transitions returns
CheckPasses ==
    /\ pc = "run"
    /\ cfg.state_machine # <<>>
    /\ check_transitions(cfg) = 0
    /\ trace' = Append(trace, [ev |-> "check", k |-> 0])
    /\ pc' = "step"
    /\ k' = 0
    /\ UNCHANGED <<hvars, cfg, in_mesh, mesh_data, disk, dirs, warnings, writes, returned, raised>>

\* run(), lines 55-59: check_transitions raises, and so does run()
CheckRaises ==
    /\ pc = "run"
    /\ cfg.state_machine # <<>>
    /\ check_transitions(cfg) # 0
    /\ trace' = Append(trace, [ev |-> "check", k |-> 0])
    /\ raised' = <<[exc |-> "TransitionError", k |-> check_transitions(cfg)]>>
    /\ pc' = "error"
    /\ UNCHANGED <<hvars, cfg, in_mesh, mesh_data, k, disk, dirs, warnings, writes, returned>>

\* run(), lines 62-69: mesh3d_machine.run(step, cfg) returns
StepReturns ==
    /\ pc = "step"
    /\ \E o \in StepOutcomes(CurrentStep, mesh_data, k + 1) :
          /\ o.raised = ""
          /\ mesh_data' = o.mesh
    /\ trace' = Append(trace, [ev |-> "step", k |-> k + 1])
    /\ pc' = "save"
    /\ UNCHANGED <<hvars, cfg, in_mesh, k, disk, dirs, warnings, writes, returned, raised>>

\* StepRaises with the exception caught: the run goes on with the entity
\* held before the step
StepRaisesCaught ==
    /\ pc = "step"
    /\ \E o \in StepOutcomes(CurrentStep, mesh_data, k + 1) :
          /\ o.raised # ""
          /\ raised' = <<[exc |-> o.raised, k |-> k + 1]>>
    /\ trace' = Append(trace, [ev |-> "step", k |-> k + 1])
    /\ pc' = "save"
    /\ UNCHANGED <<hvars, cfg, in_mesh, mesh_data, k, disk, dirs, warnings, writes, returned>>

\* run(), lines 62-69: mesh3d_machine.run(step, cfg) raises; nothing in
\* run() catches it
StepRaises ==
    /\ pc = "step"
    /\ \E o \in StepOutcomes(CurrentStep, mesh_data, k + 1) :
          /\ o.raised # ""
          /\ raised' = <<[exc |-> o.raised, k |-> k + 1]>>
    /\ trace' = Append(trace, [ev |-> "step", k |-> k + 1])
    /\ pc' = "error"
    /\ UNCHANGED <<hvars, cfg, in_mesh, mesh_data, k, disk, dirs, warnings, writes, returned>>

\* NextIteration skipping a step
NextIterationSkips ==
    /\ k' = k + 2
    /\ pc' = IF k + 2 < Len(cfg.state_machine) THEN "step" ELSE "return"

\* the for loop of run() moves on to the next step, or ends
NextIteration ==
    /\ k' = k + 1
    /\ pc' = IF k + 1 < Len(cfg.state_machine) THEN "step" ELSE "return"

\* run(), lines 72-111: the intermediate result of the step is saved
SaveIntermediate ==
    /\ pc = "save"
    /\ SaveRequested(CurrentStep)
    /\ LET intermediate_folder == IntermediateFolder(cfg)
           intermediate_filepath == IntermediateFilepath(cfg, k, CurrentStep)
           res == SerializeEntity(disk, mesh_data, intermediate_filepath)
       IN  /\ dirs' = dirs \cup {intermediate_folder}
           /\ warnings' = IF NotEmptyWarningDue(k, disk, intermediate_folder)
                          THEN warnings \cup {NotEmptyWarning}
                          ELSE warnings
           /\ disk' = res.disk
           /\ writes' = Append(writes,
                  [site |-> "run", k |-> k + 1, path |-> res.path,
                   logged |-> intermediate_filepath \o "." \o ExtensionFor(mesh_data),
                   listed |-> ListDir(disk, intermediate_folder) # {},
                   serializer |-> SerializerFor(mesh_data),
                   entity |-> mesh_data])
           /\ IF res.raised = ""
              THEN NextIteration /\ UNCHANGED raised
              ELSE /\ raised' = <<[exc |-> res.raised, k |-> k + 1]>>
                   /\ pc' = "error"
                   /\ UNCHANGED k
    /\ trace' = Append(trace, [ev |-> "write", k |-> k + 1])
    /\ UNCHANGED <<hvars, cfg, in_mesh, mesh_data, returned>>

\* run(), lines 72-73: no intermediate result is asked for
SkipIntermediate ==
    /\ pc = "save"
    /\ ~SaveRequested(CurrentStep)
    /\ NextIteration
    /\ UNCHANGED <<hvars, cfg, in_mesh, mesh_data, disk, dirs, warnings, trace, writes, returned, raised>>

\* RunReturns handing back the entity the machine was built with
RunReturnsInput ==
    /\ pc = "return"
    /\ returned' = <<in_mesh>>
    /\ pc' = "main"
    /\ UNCHANGED <<hvars, cfg, in_mesh, mesh_data, k, disk, dirs, warnings, trace, writes, raised>>

\* run(), line 113
RunReturns ==
    /\ pc = "return"
    /\ returned' = <<mesh_data>>
    /\ pc' = "main"
    /\ UNCHANGED <<hvars, cfg, in_mesh, mesh_data, k, disk, dirs, warnings, trace, writes, raised>>

\* main(), lines 157-182: the entity run() returned is serialized
MainSerializes ==
    /\ pc = "main"
    /\ LET out_mesh == returned[1]
           filepath == PathJoin(cfg.output_dir, OutputName)
           res == SerializeEntity(disk, out_mesh, filepath)
       IN  /\ disk' = res.disk
           /\ writes' = Append(writes,
                  [site |-> "main", k |-> 0, path |-> res.path,
                   logged |-> filepath \o "." \o ExtensionFor(out_mesh),
                   listed |-> FALSE,
                   serializer |-> SerializerFor(out_mesh),
                   entity |-> out_mesh])
    /\ pc' = "done"
    /\ UNCHANGED <<hvars, cfg, in_mesh, mesh_data, k, dirs, warnings, trace, returned, raised>>

Next ==
    \/ RunEmpty
    \/ CheckPasses
    \/ CheckRaises
    \/ StepReturns
    \/ StepRaises
    \/ SaveIntermediate
    \/ SkipIntermediate
    \/ RunReturns
    \/ MainSerializes

Spec == Init /\ [][Next]_vars

(***************************************************************************)
(* handlers.py: PointCloud and Mesh.                                       *)
(*                                                                         *)
(* A pandas DataFrame is its column names, in column order, and its rows   *)
(* (of a point cloud: the row labels; of a face table: the <<p1, p2, p3>>  *)
(* of each face); `none` tells the attribute holding it is None.  A        *)
(* property or a call gives a value or raises: `raised` is the exception,  *)
(* "" when there is none.                                                  *)
(***************************************************************************)
MaxRows == 2

COLORS == <<"red", "green", "blue", "nir">>
NORMALS == <<"n_x", "n_y", "n_z">>
UVS == <<"uv1_row", "uv1_col", "uv2_row", "uv2_col", "uv3_row", "uv3_col">>

XYZ == <<"x", "y", "z">>
P123 == <<"p1", "p2", "p3">>

NoneFrame == [none |-> TRUE, columns |-> <<>>, rows |-> <<>>]
DataFrame(columns, rows) == [none |-> FALSE, columns |-> columns, rows |-> rows]

Range(q) == { q[i] : i \in 1 .. Len(q) }

\* c in df.head() / c in df: c is a column of df
InFrame(c, df) == c \in Range(df.columns)

\* df.empty: no row, or no column
FrameEmpty(df) == Len(df.rows) = 0 \/ Len(df.columns) = 0

\* [c for c in names if c in df.head()]
PresentOf(names, df) == SelectSeq(names, LAMBDA c : InFrame(c, df))

\* any([...]) and all([...]) over a list of names
AnyIn(names, df) == \E i \in 1 .. Len(names) : InFrame(names[i], df)
AllIn(names, df) == \A i \in 1 .. Len(names) : InFrame(names[i], df)

\* df[names] = values: the columns named that df lacks are added at the end
RECURSIVE WithColumns(_, _)
WithColumns(df, names) ==
    IF names = <<>> THEN df
    ELSE WithColumns(
            IF InFrame(Head(names), df) THEN df
            ELSE [df EXCEPT !.columns = Append(@, Head(names))],
            Tail(names))

\* PointCloud.__init__ and Mesh.__init__
MeshObject(pcd_df, mesh_df) ==
    [pcd |-> [df |-> pcd_df, o3d_pcd |-> <<>>], df |-> mesh_df, o3d_mesh |-> <<>>,
     image_texture_path |-> <<>>]

\* the value of a property
PyBool(b) == IF b THEN "True" ELSE "False"

\* PointCloud.has_colors gone wrong: true only with every colour column
has_colors_all(pcd) ==
    IF pcd.df.none THEN "ValueError" ELSE PyBool(AllIn(COLORS, pcd.df))

\* PointCloud.has_colors
has_colors(pcd) ==
    IF pcd.df.none THEN "ValueError" ELSE PyBool(AnyIn(COLORS, pcd.df))

\* PointCloud.has_normals gone wrong: false, with no error, when df is None
has_normals_of_none(pcd) == PyBool(~pcd.df.none /\ AllIn(NORMALS, pcd.df))

\* PointCloud.has_normals
has_normals(pcd) ==
    IF pcd.df.none THEN "ValueError" ELSE PyBool(AllIn(NORMALS, pcd.df))

\* PointCloud.has_classes
has_classes(pcd) ==
    IF pcd.df.none THEN "ValueError" ELSE PyBool(InFrame("classification", pcd.df))

\* Mesh.has_triangles
has_triangles(mesh) ==
    IF mesh.df.none THEN "ValueError"
    ELSE PyBool(AllIn(P123, mesh.df) /\ ~FrameEmpty(mesh.df))

\* Mesh.has_texture gone wrong: the image texture path is not looked at
has_texture_any_path(mesh) ==
    IF mesh.df.none THEN "ValueError"
    ELSE PyBool(AllIn(UVS, mesh.df) /\ ~FrameEmpty(mesh.df))

\* Mesh.has_texture
has_texture(mesh) ==
    IF mesh.df.none THEN "ValueError"
    ELSE PyBool(/\ mesh.image_texture_path # <<>>
                /\ AllIn(UVS, mesh.df)
                /\ ~FrameEmpty(mesh.df))

\* Mesh.has_triangle_uvs
has_triangle_uvs(mesh) ==
    IF mesh.df.none THEN "ValueError"
    ELSE PyBool(AllIn(UVS, mesh.df) /\ ~FrameEmpty(mesh.df))

\* what a getter gives: the columns of the frame it returns, or an exception
Got(columns, rows) == [raised |-> "", columns |-> columns, rows |-> rows]
GetRaised(exc) == [raised |-> exc, columns |-> <<>>, rows |-> <<>>]

\* PointCloud.get_colors gone wrong: the colour columns in frame order
get_colors_frame_order(pcd) ==
    IF has_colors(pcd) # "True" THEN GetRaised("ValueError")
    ELSE Got(SelectSeq(pcd.df.columns, LAMBDA c : c \in Range(COLORS)), pcd.df.rows)

\* PointCloud.get_colors
get_colors(pcd) ==
    IF has_colors(pcd) # "True" THEN GetRaised("ValueError")
    ELSE Got(PresentOf(COLORS, pcd.df), pcd.df.rows)

\* PointCloud.get_normals
get_normals(pcd) ==
    IF has_normals(pcd) # "True" THEN GetRaised("ValueError")
    ELSE Got(NORMALS, pcd.df.rows)

\* Mesh.get_triangles: self.df[["p1", "p2", "p3"]], with no check before it
get_triangles(mesh) ==
    IF mesh.df.none THEN GetRaised("TypeError")
    ELSE IF ~AllIn(P123, mesh.df) THEN GetRaised("KeyError")
    ELSE Got(P123, mesh.df.rows)

\* what a setter does: the object after it, and the exception it raised
Done(obj) == [raised |-> "", obj |-> obj]
Refused(exc, obj) == [raised |-> exc, obj |-> obj]

\* the shape of a numpy array of two dimensions
Shape(rows, cols) == [rows |-> rows, cols |-> cols]

\* pandas, df[names] = values with values of shape `shape`, one column per
\* name: a frame with rows takes values of its own length only; a frame with
\* no row takes the index of the values
AssignColumns(df, names, shape) ==
    IF Len(df.rows) = shape.rows \/ Len(df.rows) = 0
    THEN Done(WithColumns([df EXCEPT !.rows = RangeIndex(shape.rows)], names))
    ELSE Refused("ValueError", df)

\* PointCloud.set_df_from_vertices keeping the other columns of the frame
set_df_from_vertices_keeping(pcd, n) ==
    Done([pcd EXCEPT !.df = DataFrame(IF pcd.df.none THEN XYZ ELSE pcd.df.columns,
                                      RangeIndex(n))])

\* PointCloud.set_df_from_vertices, vertices of shape (n, 3)
set_df_from_vertices(pcd, n) == Done([pcd EXCEPT !.df = DataFrame(XYZ, RangeIndex(n))])

\* PointCloud.set_df_colors gone wrong: the number of columns is not compared
\* with the number of names, and the names that have a column are kept
set_df_colors_unchecked(pcd, shape, color_names) ==
    IF \E i \in 1 .. Len(color_names) : color_names[i] \notin Range(COLORS)
    THEN Refused("ValueError", pcd)
    ELSE IF pcd.df.none THEN Refused("TypeError", pcd)
    ELSE LET kept == IF shape.cols < Len(color_names)
                     THEN SubSeq(color_names, 1, shape.cols) ELSE color_names
             r == AssignColumns(pcd.df, kept, shape)
         IN  [raised |-> r.raised, obj |-> [pcd EXCEPT !.df = r.obj]]

\* PointCloud.set_df_colors
set_df_colors(pcd, shape, color_names) ==
    IF \E i \in 1 .. Len(color_names) : color_names[i] \notin Range(COLORS)
    THEN Refused("ValueError", pcd)
    ELSE IF shape.cols # Len(color_names) THEN Refused("ValueError", pcd)
    ELSE IF pcd.df.none THEN Refused("TypeError", pcd)
    ELSE LET r == AssignColumns(pcd.df, color_names, shape)
         IN  [raised |-> r.raised, obj |-> [pcd EXCEPT !.df = r.obj]]

\* PointCloud.set_df_normals
set_df_normals(pcd, shape) ==
    IF shape.cols # 3 THEN Refused("ValueError", pcd)
    ELSE IF pcd.df.none THEN Refused("TypeError", pcd)
    ELSE LET r == AssignColumns(pcd.df, NORMALS, shape)
         IN  [raised |-> r.raised, obj |-> [pcd EXCEPT !.df = r.obj]]

\* Mesh.set_df_from_vertices: the face table is the array given
Mesh_set_df_from_vertices(mesh, vertices) ==
    Done([mesh EXCEPT !.df = DataFrame(P123, vertices)])

\* Mesh.set_image_texture_path
set_image_texture_path(mesh, image_texture_path) ==
    Done([mesh EXCEPT !.image_texture_path = image_texture_path])

\* Mesh.set_df_uvs
set_df_uvs(mesh, shape) ==
    IF mesh.df.none THEN Refused("AttributeError", mesh)
    ELSE IF shape.rows # Len(mesh.df.rows) THEN Refused("ValueError", mesh)
    ELSE IF shape.cols # 6 THEN Refused("ValueError", mesh)
    ELSE Done([mesh EXCEPT !.df = WithColumns(@, UVS)])

\* open3d TriangleMesh(vertices, triangles): the arrays are taken as given;
\* vertex_colors names the channels written, in order
TriangleMesh(vertices, triangles) ==
    [vertices |-> vertices, triangles |-> triangles, vertex_colors |-> <<>>]

\* the colour conversion never refusing a cloud
set_o3d_colors_lenient(df) == FALSE

\* set_o3d_colors and set_o3d_vertex_colors, as far as they raise: red,
\* green or blue is missing, or min() is asked of an array with no row
set_o3d_colors_raises(df) ==
    \/ \E c \in {"red", "green", "blue"} : ~InFrame(c, df)
    \/ df.rows = <<>>

\* the channels set_o3d_colors and set_o3d_vertex_colors write
O3dChannels == <<"red", "green", "blue">>

\* Mesh.set_o3d_vertex_colors, as far as it raises
set_o3d_vertex_colors_raises(mesh) == set_o3d_colors_raises(mesh.pcd.df)

\* PointCloud.set_o3d_pcd_from_df
set_o3d_pcd_from_df(pcd) ==
    IF pcd.df.none THEN Refused("TypeError", pcd)
    ELSE IF ~AllIn(XYZ, pcd.df) THEN Refused("KeyError", pcd)
    ELSE LET built == [pcd EXCEPT !.o3d_pcd = <<[points |-> Len(pcd.df.rows), colors |-> <<>>]>>]
         IN  IF has_colors(pcd) = "True"
             THEN IF set_o3d_colors_raises(pcd.df) THEN Refused("ValueError", built)
                  ELSE Done([built EXCEPT !.o3d_pcd[1].colors = O3dChannels])
             ELSE Done(built)

\* Mesh.set_o3d_mesh_from_df
set_o3d_mesh_from_df(mesh) ==
    IF mesh.df.none THEN Refused("ValueError", mesh)
    ELSE IF mesh.pcd.df.none THEN Refused("ValueError", mesh)
    ELSE IF ~AllIn(XYZ, mesh.pcd.df) \/ ~AllIn(P123, mesh.df)
    THEN Refused("KeyError", mesh)
    ELSE LET built == [mesh EXCEPT !.o3d_mesh =
                          <<TriangleMesh(Len(mesh.pcd.df.rows), mesh.df.rows)>>]
         IN  IF has_colors(mesh.pcd) = "True"
             THEN IF set_o3d_vertex_colors_raises(mesh) THEN Refused("ValueError", built)
                  ELSE Done([built EXCEPT !.o3d_mesh[1].vertex_colors = O3dChannels])
             ELSE Done(built)

(***************************************************************************)
(* A Mesh object under a sequence of calls: hm is the object, hres the     *)
(* last call made on it, with its arguments and what it gave.              *)
(***************************************************************************)
\* the pipeline is not running
PipelineIdle ==
    /\ cfg = <<>> /\ in_mesh = <<>> /\ mesh_data = <<>> /\ pc = "idle" /\ k = 0
    /\ disk = EmptyDisk /\ dirs = {} /\ warnings = <<>> /\ trace = <<>>
    /\ writes = <<>> /\ returned = <<>> /\ raised = <<>>

\* the arrays given to the setters
Shapes == { Shape(r, c) : r \in 0 .. MaxRows, c \in {1, 3, 6} }
ColorNames == { <<"red", "green", "blue">>, <<"nir">>, <<"purple">> }
FaceArrays == { <<>>, <<<<0, 0, 1>>>>, <<<<0 - 1, 0, 1>>>> }

\* the data frames a Mesh is constructed with
PointFrames ==
    { NoneFrame }
        \cup { DataFrame(XYZ, RangeIndex(n)) : n \in 0 .. MaxRows }
        \cup { DataFrame(XYZ \o <<"classification">>, RangeIndex(MaxRows)) }
        \cup { DataFrame(XYZ \o <<"red", "green", "blue">> \o NORMALS, RangeIndex(MaxRows)) }
FaceFrames ==
    { NoneFrame, DataFrame(<<"classification">>, RangeIndex(1)) }

Call(op, args, raised_, value) ==
    [op |-> op, args |-> args, raised |-> raised_, value |-> value]

InitHandlers ==
    /\ PipelineIdle
    /\ cdf = <<>> /\ o3d = <<>>
    /\ \E pcd_df \in PointFrames, mesh_df \in FaceFrames :
          hm = MeshObject(pcd_df, mesh_df)
    /\ hres = Call("__init__", <<>>, "", <<>>)

\* a setter of the point cloud of the mesh
OnPcd(op, args, r) ==
    /\ hm' = [hm EXCEPT !.pcd = r.obj]
    /\ hres' = Call(op, args, r.raised, <<>>)
    /\ UNCHANGED <<pvars, cdf, o3d>>

\* a setter of the mesh
OnMesh(op, args, r) ==
    /\ hm' = r.obj
    /\ hres' = Call(op, args, r.raised, <<>>)
    /\ UNCHANGED <<pvars, cdf, o3d>>

\* a getter
Get(op, r) ==
    /\ hres' = Call(op, <<>>, r.raised, r)
    /\ UNCHANGED <<hm, pvars, cdf, o3d>>

CallSetDfFromVertices ==
    \E n \in 0 .. MaxRows :
        OnPcd("set_df_from_vertices", <<n>>, set_df_from_vertices(hm.pcd, n))

CallSetDfColors ==
    \E shape \in Shapes, color_names \in ColorNames :
        OnPcd("set_df_colors", <<shape, color_names>>,
              set_df_colors(hm.pcd, shape, color_names))

CallSetDfNormals ==
    \E shape \in Shapes :
        OnPcd("set_df_normals", <<shape>>, set_df_normals(hm.pcd, shape))

CallMeshSetDfFromVertices ==
    \E vertices \in FaceArrays :
        OnMesh("Mesh.set_df_from_vertices", <<vertices>>,
               Mesh_set_df_from_vertices(hm, vertices))

CallSetImageTexturePath ==
    \E path \in { <<>>, <<"texture.png">> } :
        OnMesh("set_image_texture_path", <<path>>, set_image_texture_path(hm, path))

CallSetDfUvs ==
    \E shape \in Shapes : OnMesh("set_df_uvs", <<shape>>, set_df_uvs(hm, shape))

CallSetO3dMeshFromDf ==
    OnMesh("set_o3d_mesh_from_df", <<>>, set_o3d_mesh_from_df(hm))

CallSetO3dPcdFromDf ==
    OnPcd("set_o3d_pcd_from_df", <<>>, set_o3d_pcd_from_df(hm.pcd))

CallGetColors == Get("get_colors", get_colors(hm.pcd))

CallGetNormals == Get("get_normals", get_normals(hm.pcd))

CallGetTriangles == Get("get_triangles", get_triangles(hm))

\* the properties of the object, read one after the other
Properties(mesh) ==
    [has_colors |-> has_colors(mesh.pcd),
     has_normals |-> has_normals(mesh.pcd),
     has_classes |-> has_classes(mesh.pcd),
     has_triangles |-> has_triangles(mesh),
     has_texture |-> has_texture(mesh),
     has_triangle_uvs |-> has_triangle_uvs(mesh)]

\* reading the properties gone wrong: has_texture forgets the path it tested
EvaluateForgetsPath ==
    /\ hres' = Call("properties", <<>>, "", Properties(hm))
    /\ hm' = [hm EXCEPT !.image_texture_path = <<>>]
    /\ UNCHANGED <<pvars, cdf, o3d>>

Evaluate ==
    /\ hres' = Call("properties", <<>>, "", Properties(hm))
    /\ UNCHANGED <<hm, pvars, cdf, o3d>>

NextHandlers ==
    \/ CallSetDfFromVertices
    \/ CallSetDfColors
    \/ CallSetDfNormals
    \/ CallMeshSetDfFromVertices
    \/ CallSetImageTexturePath
    \/ CallSetDfUvs
    \/ CallGetColors
    \/ CallGetNormals
    \/ CallGetTriangles
    \/ Evaluate

SpecHandlers == InitHandlers /\ [][NextHandlers]_vars

\* the calls that lead to an open3d mesh
NextConvert ==
    \/ CallSetDfFromVertices
    \/ CallSetDfColors
    \/ CallMeshSetDfFromVertices
    \/ CallSetO3dMeshFromDf
    \/ CallSetO3dPcdFromDf

SpecConvert == InitHandlers /\ [][NextConvert]_vars

(***************************************************************************)
(* Mesh.serialize and Mesh.deserialize on files.                           *)
(*                                                                         *)
(* hm is a Mesh (its point cloud, face table and the attribute columns of  *)
(* its point cloud), disk the files, hres the calls made so far, in order. *)
(***************************************************************************)
MaxCalls == 2

\* what a deserialization gives: a Mesh or data frame, or an exception
Read(value) == [raised |-> "", value |-> <<value>>]
NotRead(exc) == [raised |-> exc, value |-> <<>>]

\* a Mesh with attribute columns on its point cloud
MeshWithColumns(n, faces, columns) ==
    [pcd |-> RangeIndex(n), hasDf |-> TRUE, faces |-> faces, by |-> 0,
     columns |-> columns, face_columns |-> P123]

\* pd.DataFrame(data=<array of ncols columns>, columns=names): the names
\* must be as many as the columns of the data
FrameOfArray(rows, ncols, names) ==
    IF ncols # Len(names) THEN NotRead("ValueError")
    ELSE Read([columns |-> names, rows |-> rows])

\* pcd_io.deserialize_point_cloud(filepath), from the specification
\* (deserialize(path) -> entity): the vertices of the file at filepath
deserialize_point_cloud(d, filepath) ==
    IF filepath \notin DOMAIN d THEN NotRead("FileNotFoundError")
    ELSE Read(RangeIndex(d[filepath].vertices))

\* ply2mesh(filepath): the face table is built from the (n, 3) array of the
\* triangles read, under the one column name "p1, p2, p3"
ply2mesh(d, filepath) ==
    IF SplitLast(filepath, ".") # "ply" THEN NotRead("ValueError")
    ELSE LET pcd == deserialize_point_cloud(d, filepath)
         IN  IF pcd.raised # "" THEN NotRead(pcd.raised)
             ELSE LET df == FrameOfArray(d[filepath].triangles, 3, <<"p1, p2, p3">>)
                  IN  IF df.raised # "" THEN NotRead(df.raised)
                      ELSE Read([pcd |-> pcd.value[1], hasDf |-> TRUE,
                                 faces |-> df.value[1].rows, by |-> 0,
                                 columns |-> XYZ, face_columns |-> df.value[1].columns])

\* deserialize_mesh(filepath)
deserialize_mesh(d, filepath) ==
    IF SplitLast(filepath, ".") = "ply" THEN ply2mesh(d, filepath)
    ELSE NotRead("NotImplementedError")

\* Mesh.deserialize(filepath): self.pcd.df, self.df = deserialize_mesh(...)
\* unpacks the Mesh that deserialize_mesh returns, which is not iterable
Mesh_deserialize(d, filepath) ==
    LET r == deserialize_mesh(d, filepath)
    IN  IF r.raised # "" THEN r ELSE NotRead("TypeError")

IOPaths == { "/out/m.ply", "/out/m_mesh.ply", "/out/m.csv", "/out/m.obj", "/out/m" }

IOMeshes ==
    UNION { { MeshWithColumns(n, f, cols) :
                f \in FaceTables(n),
                cols \in { XYZ, XYZ \o <<"red", "green", "blue">> \o NORMALS } } :
            n \in 1 .. MaxPoints }

\* the pipeline variables but the disk
qvars == <<cfg, in_mesh, mesh_data, pc, k, dirs, warnings, trace, writes, returned, raised>>

InitIO ==
    /\ cfg = <<>> /\ in_mesh = <<>> /\ mesh_data = <<>> /\ pc = "idle" /\ k = 0
    /\ dirs = {} /\ warnings = <<>> /\ trace = <<>>
    /\ writes = <<>> /\ returned = <<>> /\ raised = <<>>
    /\ disk = EmptyDisk
    /\ cdf = <<>> /\ o3d = <<>>
    /\ hm \in IOMeshes
    /\ hres = <<>>

\* Mesh.serialize(filepath, extension=...) -> serialize_mesh
CallSerialize ==
    /\ Len(hres) < MaxCalls
    /\ \E filepath \in IOPaths, extension \in { "ply", "csv", "obj" } :
          LET res == MeshSerialize(disk, hm, filepath, extension)
          IN  /\ disk' = res.disk
              /\ hres' = Append(hres, Call("serialize", <<filepath, extension>>,
                                           res.raised, <<hm>>))
    /\ UNCHANGED <<qvars, hm, cdf, o3d>>

\* Mesh.deserialize(filepath)
CallDeserialize ==
    /\ Len(hres) < MaxCalls
    /\ \E filepath \in IOPaths :
          LET r == Mesh_deserialize(disk, filepath)
          IN  /\ hm' = IF r.raised = "" THEN r.value[1] ELSE hm
              /\ hres' = Append(hres, Call("deserialize", <<filepath>>, r.raised, r.value))
    /\ UNCHANGED <<qvars, disk, cdf, o3d>>

\* deserialize_mesh(filepath)
CallDeserializeMesh ==
    /\ Len(hres) < MaxCalls
    /\ \E filepath \in IOPaths :
          LET r == deserialize_mesh(disk, filepath)
          IN  hres' = Append(hres, Call("deserialize_mesh", <<filepath>>, r.raised, r.value))
    /\ UNCHANGED <<qvars, hm, disk, cdf, o3d>>

NextIO == CallSerialize \/ CallDeserialize \/ CallDeserializeMesh

SpecIO == InitIO /\ [][NextIO]_vars

(***************************************************************************)
(* The processing functions called on a data frame: filter.py, denoise.py. *)
(*                                                                         *)
(* hm is the data frame of the caller (column names, row labels), hres the *)
(* last call made with it: its arguments, the exception or the value       *)
(* returned (<<frame>>, or <<>> for None).  A call is given the caller's   *)
(* frame itself, so a function that wrote into its argument would change   *)
(* hm; the output of a call may be handed on as the input of the next.     *)
(***************************************************************************)
\* what a function call leaves: its exception, the value it returned and
\* the frame passed as argument as it stands after the call
Outcome(raised_, value, arg) == [raised |-> raised_, value |-> value, arg |-> arg]

\* a filter writing its selection into the frame it was given
FilterInPlace(df_pcd, res) ==
    IF res.raised # "" THEN Outcome(res.raised, <<>>, df_pcd)
    ELSE Outcome("", <<DataFrame(df_pcd.columns, res.df)>>,
                 DataFrame(df_pcd.columns, res.df))

\* the filters on a frame with columns: df_pcd.loc[ind_valid_pts] is a new
\* frame with every column of df_pcd, bound to the local name only
FilterCall(df_pcd, res) ==
    IF res.raised # "" THEN Outcome(res.raised, <<>>, df_pcd)
    ELSE Outcome("", <<DataFrame(df_pcd.columns, res.df)>>, df_pcd)

\* df_pcd.drop(index=df_pcd.index.values[remove_pts]): the rows but those at
\* the positions listed
Drop(df_pcd, remove_pts) ==
    DataFrame(df_pcd.columns,
              SelectSeq(df_pcd.rows,
                        LAMBDA l : \A i \in 1 .. Len(remove_pts) :
                                       df_pcd.rows[remove_pts[i] + 1] # l))

\* local_density_analysis: the frame without the points of probability over
\* 0.6 is bound to the local name; the function ends with no return
local_density_analysis(df_pcd, remove_pts) ==
    LET df_local == Drop(df_pcd, remove_pts)
    IN  Outcome("", <<>>, df_pcd)

\* compute_pcd_normals: the knn neighbours of each point are looked up in
\* tree.data, where a neighbour that does not exist has index n;
\* df_pcd.assign(n_x=..., n_y=..., n_z=...) is a new frame
compute_pcd_normals(df_pcd, knn) ==
    IF Len(df_pcd.rows) < knn THEN Outcome("IndexError", <<>>, df_pcd)
    ELSE Outcome("", <<WithColumns(df_pcd, <<"n_x", "n_y", "n_z">>)>>, df_pcd)

\* the frames read from an input path: labels 0 .. n-1
InputFrames ==
    { DataFrame(cols, RangeIndex(n)) :
        cols \in { XYZ, XYZ \o <<"red", "green", "blue">> }, n \in 1 .. MaxPoints }


InitFilters ==
    /\ PipelineIdle
    /\ cdf = <<>> /\ o3d = <<>>
    /\ hm \in InputFrames
    /\ hres = Call("read", <<>>, "", <<>>)

\* a call with the frame hm as argument
Applied(op, args, out) ==
    /\ hm' = out.arg
    /\ hres' = Call(op, args, out.raised, out.value)
    /\ UNCHANGED <<pvars, cdf, o3d>>

CallRadiusFilter ==
    \E ind \in IndexLists(Len(hm.rows)) :
        Applied("radius_filtering_outliers_o3", <<ind>>,
                FilterCall(hm, radius_filtering_outliers_o3(hm.rows, ind)))

CallStatisticalFilter ==
    \E ind \in IndexLists(Len(hm.rows)) :
        Applied("statistical_filtering_outliers_o3d", <<ind>>,
                FilterCall(hm, statistical_filtering_outliers_o3d(hm.rows, ind)))

CallLocalDensity ==
    \E remove_pts \in IndexLists(Len(hm.rows)) :
        Applied("local_density_analysis", <<remove_pts>>,
                local_density_analysis(hm, remove_pts))

CallComputeNormals ==
    \E knn \in { 2, MaxPoints + 1 } :
        Applied("compute_pcd_normals", <<knn>>, compute_pcd_normals(hm, knn))

\* the frame a call returned is the input of the next step
HandOn ==
    /\ hres.raised = ""
    /\ hres.value # <<>>
    /\ hm' = hres.value[1]
    /\ hres' = Call("read", <<>>, "", <<>>)
    /\ UNCHANGED <<pvars, cdf, o3d>>

NextFilters ==
    \/ CallRadiusFilter
    \/ CallStatisticalFilter
    \/ CallLocalDensity
    \/ CallComputeNormals
    \/ HandOn

SpecFilters == InitFilters /\ [][NextFilters]_vars

(***************************************************************************)
(* Properties.                                                             *)
(***************************************************************************)
StepsInTrace == { trace[i].k : i \in { j \in 1 .. Len(trace) : trace[j].ev = "step" } }

RunWrites == { i \in 1 .. Len(writes) : writes[i].site = "run" }

TransitionRaised == raised # <<>> /\ raised[1].exc = "TransitionError"

StepRaisedAt(m) == raised # <<>> /\ raised[1].exc # "TransitionError" /\ raised[1].k = m

RunOver == pc \in {"return", "main", "done"}

\* C1: with a non-empty step list, check_transitions is the first thing
\* run() does and it is called once only; when it raises, no step has been
\* executed, no intermediate file has been written and nothing is returned.
C1_CheckBeforeAnyStep ==
    /\ (cfg.state_machine # <<>> /\ pc # "run")
          => (trace # <<>> /\ trace[1].ev = "check")
    /\ \A i \in 2 .. Len(trace) : trace[i].ev # "check"
    /\ StepsInTrace # {} => (trace[1].ev = "check" /\ ~TransitionRaised)
    /\ TransitionRaised
          => /\ pc = "error"
             /\ StepsInTrace = {}
             /\ writes = <<>>
             /\ ListDir(disk, IntermediateFolder(cfg)) \subseteq
                   { PathJoin(IntermediateFolder(cfg), "old.laz") }
             /\ returned = <<>>
             /\ mesh_data = in_mesh

C1_Witness ==
    /\ TransitionRaised
    /\ Len(cfg.state_machine) = 2
    /\ raised[1].k = 2
    /\ SaveRequested(cfg.state_machine[1])

\* C2: with an empty step list run() checks nothing, runs no step, writes
\* no intermediate file, does not create the intermediate directory, warns,
\* and returns the entity the machine was given.
C2_EmptyRunReturnsInput ==
    /\ [](cfg.state_machine = <<>> =>
            /\ trace = <<>>
            /\ RunWrites = {}
            /\ raised = <<>>
            /\ mesh_data = in_mesh
            /\ (pc # "run" => EmptyWarning \in warnings)
            /\ (returned # <<>> => returned[1] = in_mesh))
    /\ [][cfg.state_machine = <<>> =>
            /\ dirs' = dirs
            /\ ListDir(disk', IntermediateFolder(cfg)) = ListDir(disk, IntermediateFolder(cfg))]_vars

C2_Witness ==
    /\ cfg.state_machine = <<>>
    /\ pc = "main"
    /\ returned = <<in_mesh>>
    /\ IntermediateFolder(cfg) \notin dirs

\* C3: the steps run one at a time in the configured order; the write of
\* step k, when asked for, comes right after step k and before step k+1;
\* a run that does not fail has executed each configured step once.
C3_SequentialOnce ==
    /\ \A i, j \in 1 .. Len(trace) :
          (i < j /\ trace[i].ev = "step" /\ trace[j].ev = "step")
             => trace[i].k < trace[j].k
    /\ \A i \in 1 .. Len(trace) :
          trace[i].ev = "write"
             => i > 1 /\ trace[i - 1] = [ev |-> "step", k |-> trace[i].k]
    /\ \A i \in 1 .. Len(trace) :
          (trace[i].ev = "step" /\ trace[i].k > 1)
             => /\ \E j \in 1 .. (i - 1) : trace[j] = [ev |-> "step", k |-> trace[i].k - 1]
                /\ SaveRequested(cfg.state_machine[trace[i].k - 1])
                      => trace[i - 1] = [ev |-> "write", k |-> trace[i].k - 1]
    /\ StepsInTrace \subseteq 1 .. Len(cfg.state_machine)
    /\ (RunOver /\ cfg.state_machine # <<>>)
          => /\ StepsInTrace = 1 .. Len(cfg.state_machine)
             /\ Cardinality({ i \in 1 .. Len(trace) : trace[i].ev = "step" })
                   = Len(cfg.state_machine)

C3_Witness ==
    /\ pc = "done"
    /\ Len(cfg.state_machine) = 2
    /\ SaveRequested(cfg.state_machine[1])
    /\ trace = << [ev |-> "check", k |-> 0], [ev |-> "step", k |-> 1],
                  [ev |-> "write", k |-> 1], [ev |-> "step", k |-> 2] >>

\* C4: when the callable of step m raises, the run has ended in error:
\* nothing is returned, nothing more can happen, no step after m has run, no
\* intermediate file of step m or later has been written, and the files of
\* the steps before m are still on disk.
C4_StepErrorAborts ==
    \A m \in 1 .. Len(cfg.state_machine) :
       StepRaisedAt(m)
          => /\ pc = "error"
             /\ ~ENABLED Next
             /\ returned = <<>>
             /\ \A n \in StepsInTrace : n <= m
             /\ \A i \in 1 .. Len(trace) : trace[i].ev = "write" => trace[i].k < m
             /\ \A i \in 1 .. Len(writes) :
                   /\ writes[i].site = "run"
                   /\ writes[i].k < m
                   /\ writes[i].path \in DOMAIN disk
                   /\ disk[writes[i].path].by = writes[i].k

C4_Witness ==
    /\ StepRaisedAt(2)
    /\ Len(writes) = 1
    /\ writes[1].k = 1
    /\ writes[1].path \in DOMAIN disk

\* C5: after step k the machine holds the output of step k; a run over a
\* non-empty step list returns the output of the last step; the file written
\* for step k holds the output of step k.
C5_HeldEntityIsStepOutput ==
    /\ pc = "save" => mesh_data.by = k + 1
    /\ pc = "step" => mesh_data.by = k
    /\ (returned # <<>> /\ cfg.state_machine # <<>>)
          => /\ returned[1].by = Len(cfg.state_machine)
             /\ returned[1] = mesh_data
    /\ \A i \in RunWrites :
          /\ writes[i].entity.by = writes[i].k
          /\ writes[i].path \in DOMAIN disk
          /\ disk[writes[i].path].by = writes[i].k
          /\ disk[writes[i].path].vertices = Len(writes[i].entity.pcd)

C5_Witness ==
    /\ returned # <<>>
    /\ Len(cfg.state_machine) = 2
    /\ returned[1].by = 2
    /\ returned[1] # in_mesh
    /\ \E i \in RunWrites : writes[i].k = 1 /\ disk[writes[i].path].by = 1

\* the declared kind step i of the list finds: that of the initial state, or
\* the declared output kind of step i-1
KindBefore(i) ==
    IF i = 1 THEN InitialKind(cfg.initial_state)
    ELSE Registry[StepKey(cfg.state_machine[i - 1])].out

AllRegistered == \A i \in 1 .. Len(cfg.state_machine) : Registered(cfg.state_machine[i])

\* some step that requires a Mesh with faces directly follows a step, or
\* the initial state, that yields a point cloud only
MeshStepAfterCloud ==
    \E i \in 1 .. Len(cfg.state_machine) :
       /\ Registered(cfg.state_machine[i])
       /\ Registry[StepKey(cfg.state_machine[i])].in = MeshWithFaces
       /\ i > 1 => Registered(cfg.state_machine[i - 1])
       /\ KindBefore(i) = PointCloudOnly

\* every step is registered and finds the kind it declares as input
ChainsConsistently ==
    /\ AllRegistered
    /\ \A i \in 1 .. Len(cfg.state_machine) :
          Registry[StepKey(cfg.state_machine[i])].in \in {Either, KindBefore(i)}

\* C6: a step list in which a step that needs a Mesh with faces directly
\* follows a point-cloud-only step or initial state is rejected, a list whose
\* kinds chain is accepted, and either way before any step has run.
C6_TransitionVerdict ==
    (cfg.state_machine # <<>> /\ pc # "run")
       => /\ MeshStepAfterCloud
             => (TransitionRaised /\ pc = "error" /\ StepsInTrace = {} /\ writes = <<>>)
          /\ ChainsConsistently => ~TransitionRaised
          /\ (ChainsConsistently /\ trace = <<[ev |-> "check", k |-> 0]>>) => pc = "step"
          /\ StepsInTrace # {} => ChainsConsistently

C6_Witness ==
    /\ pc = "error"
    /\ TransitionRaised
    /\ MeshStepAfterCloud
    /\ Len(cfg.state_machine) = 2
    /\ StepKey(cfg.state_machine[1]) = <<"filter", "radius_o3d">>
    /\ StepKey(cfg.state_machine[2]) = <<"simplify_mesh", "garland-heckbert">>

\* the name the specification gives the intermediate file of step n
\* (1-based): <NN>_<action>_<method>.<ext> in intermediate_results
DocumentedName(n, step, ext) ==
    PathJoin(PathJoin(cfg.output_dir, "intermediate_results"),
             ZFill(ToString(n), 2) \o "_" \o step.action \o "_" \o step.method
                \o "." \o ext)

StepDone(n) == n \in StepsInTrace /\ (pc # "save" \/ k + 1 # n) /\ ~StepRaisedAt(n)

\* C7 (as claimed): the step at 1-based position n leaves an intermediate
\* file if and only if its save_output is true, and that file is
\* <NN>_<action>_<method>.<ext> in intermediate_results.
C7_IntermediateFileName ==
    \A n \in 1 .. Len(cfg.state_machine) :
       StepDone(n)
          => /\ (\E i \in RunWrites : writes[i].k = n)
                   <=> cfg.state_machine[n].save_output = "true"
             /\ \A i \in RunWrites :
                   writes[i].k = n
                      => /\ writes[i].path =
                               DocumentedName(n, cfg.state_machine[n],
                                              ExtensionFor(writes[i].entity))
                         /\ writes[i].path \in DOMAIN disk

\* C8 (as claimed): when the intermediate directory holds files at the first
\* intermediate write of the run, whichever step it belongs to, the warning
\* is emitted and the run goes on.
C8_WarningAtFirstWrite ==
    \A i \in RunWrites :
       ((\A j \in RunWrites : i <= j) /\ writes[i].listed)
          => /\ NotEmptyWarning \in warnings
             /\ writes[i].path \in DOMAIN disk
             /\ ~(raised # <<>> /\ raised[1].k = writes[i].k)

\* C9 (as claimed): an entity whose face table is absent or has no rows is
\* written by the point-cloud serializer as 'laz', in run() and in main();
\* the mesh serializer ('ply') is used only with a face table that has rows.
C9_CloudOnlySerialization ==
    \A i \in 1 .. Len(writes) :
       /\ (~DfIsNotNone(writes[i].entity) \/ DfEmpty(writes[i].entity))
             => (writes[i].serializer = "pcd" /\ SplitLast(writes[i].path, ".") = "laz")
       /\ writes[i].serializer = "mesh"
             => (DfIsNotNone(writes[i].entity) /\ ~DfEmpty(writes[i].entity))

IsFilter(step) == step.action = "filter"

\* C10: a filter never hands an empty point cloud on: no entity held,
\* returned or written has an empty point cloud; when a filter step raises
\* (its selection was empty, or failed), the entity held is still the one
\* held before the step, the run is over, nothing is returned and nothing
\* more is executed or written.
C10_EmptyFilterOutputRaises ==
    /\ mesh_data.pcd # <<>>
    /\ \A i \in 1 .. Len(writes) : writes[i].entity.pcd # <<>>
    /\ returned # <<>> => returned[1].pcd # <<>>
    /\ \A m \in 1 .. Len(cfg.state_machine) :
          (StepRaisedAt(m) /\ raised[1].exc = "RuntimeError")
             => /\ IsFilter(cfg.state_machine[m])
                /\ pc = "error"
                /\ ~ENABLED Next
                /\ returned = <<>>
                /\ mesh_data.by = m - 1
                /\ trace[Len(trace)] = [ev |-> "step", k |-> m]
                /\ \A i \in 1 .. Len(writes) : writes[i].k < m

C10_Witness ==
    /\ StepRaisedAt(1)
    /\ raised[1].exc = "RuntimeError"
    /\ Len(cfg.state_machine) = 2
    /\ cfg.state_machine[1].method = "statistics_o3d"
    /\ cfg.state_machine[1].save_output = "true"
    /\ pc = "error"

(***************************************************************************)
(* Colours handed to open3d: set_o3d_colors and set_o3d_vertex_colors.     *)
(*                                                                         *)
(* cdf is the point cloud: whether the open3d object is there, the colour  *)
(* columns of the frame and, for each point, its <<red, green, blue>>.     *)
(* o3d is the last conversion: the exception raised or the colour array    *)
(* written.  A normalised value is the fraction num / den, den > 0; NaN is *)
(* the record [nan |-> TRUE].                                              *)
(***************************************************************************)
MaxColourPoints == 2

\* the colour values of the frames
Levels == {0, 1, 3}

Fraction(num, den) == [nan |-> FALSE, num |-> num, den |-> den]
NaN == [nan |-> TRUE, num |-> 0, den |-> 0]

\* colors_arr.min() and colors_arr.max(): over the whole array
ArrayValues(arr) == { arr[i][j] : i \in 1 .. Len(arr), j \in 1 .. 3 }
ArrayMin(arr) == CHOOSE m \in ArrayValues(arr) : \A v \in ArrayValues(arr) : m <= v
ArrayMax(arr) == CHOOSE m \in ArrayValues(arr) : \A v \in ArrayValues(arr) : m >= v

\* the values of one channel
ChannelValues(arr, j) == { arr[i][j] : i \in 1 .. Len(arr) }
ChannelMin(arr, j) ==
    CHOOSE m \in ChannelValues(arr, j) : \A v \in ChannelValues(arr, j) : m <= v
ChannelMax(arr, j) ==
    CHOOSE m \in ChannelValues(arr, j) : \A v \in ChannelValues(arr, j) : m >= v

\* the normalisation gone wrong: each channel with its own minimum and maximum
normalize_per_channel(arr) ==
    [i \in 1 .. Len(arr) |->
        [j \in 1 .. 3 |->
            IF ChannelMax(arr, j) - ChannelMin(arr, j) # 0
            THEN Fraction(arr[i][j] - ChannelMin(arr, j),
                          ChannelMax(arr, j) - ChannelMin(arr, j))
            ELSE Fraction(0, 1)]]

\* the normalisation gone wrong: np.divide with no `where`
normalize_unguarded(arr) ==
    [i \in 1 .. Len(arr) |->
        [j \in 1 .. 3 |->
            IF ArrayMax(arr) - ArrayMin(arr) # 0
            THEN Fraction(arr[i][j] - ArrayMin(arr), ArrayMax(arr) - ArrayMin(arr))
            ELSE NaN]]

\* np.divide(arr - arr.min(), arr.max() - arr.min(), out=zeros,
\*           where=(arr.max() - arr.min()) != 0.0)
normalize(arr) ==
    [i \in 1 .. Len(arr) |->
        [j \in 1 .. 3 |->
            IF ArrayMax(arr) - ArrayMin(arr) # 0
            THEN Fraction(arr[i][j] - ArrayMin(arr), ArrayMax(arr) - ArrayMin(arr))
            ELSE Fraction(0, 1)]]

\* what a conversion gave
Converted(op, colors) == [op |-> op, raised |-> "", colors |-> colors]
NotConverted(op, exc) == [op |-> op, raised |-> exc, colors |-> <<>>]

\* the body shared by set_o3d_colors and set_o3d_vertex_colors
set_o3d_colors(op, cloud) ==
    IF ~cloud.o3d_set THEN NotConverted(op, "ValueError")
    ELSE IF \E c \in {"red", "green", "blue"} : c \notin Range(cloud.columns)
    THEN NotConverted(op, "ValueError")
    ELSE IF cloud.rows = <<>> THEN NotConverted(op, "ValueError")
    ELSE Converted(op, normalize(cloud.rows))

ColourRows ==
    UNION { [1 .. n -> Levels \X Levels \X Levels] : n \in 0 .. MaxColourPoints }

ColourClouds ==
    { [o3d_set |-> s, columns |-> cols, rows |-> rows] :
        s \in BOOLEAN,
        cols \in { <<"red", "green", "blue">>, <<"red", "green", "nir">> },
        rows \in ColourRows }

InitColors ==
    /\ PipelineIdle
    /\ hm = <<>> /\ hres = <<>>
    /\ cdf \in ColourClouds
    /\ o3d = <<>>

\* PointCloud.set_o3d_colors
SetO3dColors ==
    /\ o3d' = set_o3d_colors("set_o3d_colors", cdf)
    /\ UNCHANGED <<pvars, hm, hres, cdf>>

\* Mesh.set_o3d_vertex_colors
SetO3dVertexColors ==
    /\ o3d' = set_o3d_colors("set_o3d_vertex_colors", cdf)
    /\ UNCHANGED <<pvars, hm, hres, cdf>>

NextColors == SetO3dColors \/ SetO3dVertexColors

SpecColors == InitColors /\ [][NextColors]_vars

(***************************************************************************)
(* Properties of the PointCloud and Mesh handlers.                         *)
(***************************************************************************)
\* the names of the columns of a data frame
ColumnSet(df) == { df.columns[i] : i \in 1 .. Len(df.columns) }

\* C11: of a point cloud with a data frame, has_colors is true exactly when
\* at least one of the columns red, green, blue, nir is there, and
\* has_normals is true exactly when n_x, n_y and n_z are all there.
C11_ColorsAnyNormalsAll ==
    ~hm.pcd.df.none =>
        /\ has_colors(hm.pcd) \in {"True", "False"}
        /\ has_colors(hm.pcd) = "True"
              <=> ColumnSet(hm.pcd.df) \cap {"red", "green", "blue", "nir"} # {}
        /\ has_normals(hm.pcd) \in {"True", "False"}
        /\ has_normals(hm.pcd) = "True"
              <=> {"n_x", "n_y", "n_z"} \subseteq ColumnSet(hm.pcd.df)

\* a cloud with one colour column only, and all three normal columns
C11_Witness ==
    /\ ~hm.pcd.df.none
    /\ ColumnSet(hm.pcd.df) \cap {"red", "green", "blue", "nir"} = {"nir"}
    /\ {"n_x", "n_y", "n_z"} \subseteq ColumnSet(hm.pcd.df)
    /\ has_colors(hm.pcd) = "True"
    /\ has_normals(hm.pcd) = "True"

\* the point cloud has no colour column and no normal column
Uncoloured(pcd) ==
    ColumnSet(pcd.df) \cap {"red", "green", "blue", "nir", "n_x", "n_y", "n_z"} = {}

\* C12 as stated: right after the construction of a PointCloud with no
\* colour and no normal column, with no argument at all included, has_colors
\* and has_normals are both false.
C12_FalseAfterConstruction ==
    (hres.op = "__init__" /\ Uncoloured(hm.pcd)) =>
        (has_colors(hm.pcd) = "False" /\ has_normals(hm.pcd) = "False")

\* C12 amended: right after the construction of a PointCloud with a data
\* frame that has no colour and no normal column, has_colors and has_normals
\* are both false; after a construction with no data frame (no argument),
\* reading either property raises ValueError.
C12_FalseWithFrameErrorWithout ==
    (hres.op = "__init__" /\ Uncoloured(hm.pcd)) =>
        IF hm.pcd.df.none
        THEN has_colors(hm.pcd) = "ValueError" /\ has_normals(hm.pcd) = "ValueError"
        ELSE has_colors(hm.pcd) = "False" /\ has_normals(hm.pcd) = "False"

\* a PointCloud just constructed with no argument
C12_Witness ==
    /\ hres.op = "__init__"
    /\ hm.pcd.df.none
    /\ has_colors(hm.pcd) = "ValueError"
    /\ has_normals(hm.pcd) = "ValueError"

\* the three conditions of a texture, read off the fields of the mesh
PathSet(mesh) == mesh.image_texture_path # <<>>
UvColumns(mesh) ==
    {"uv1_row", "uv1_col", "uv2_row", "uv2_col", "uv3_row", "uv3_col"}
        \subseteq ColumnSet(mesh.df)
FaceTableNonEmpty(mesh) == ~mesh.df.none /\ mesh.df.rows # <<>> /\ mesh.df.columns # <<>>

\* has_texture is true exactly under the three conditions
TextureIffConditions ==
    has_texture(hm) = "True" <=> (PathSet(hm) /\ UvColumns(hm) /\ FaceTableNonEmpty(hm))

\* a call on a textured mesh that leaves one of the conditions false leaves
\* has_texture false; no call takes the face table of a textured mesh away
TextureFlips ==
    has_texture(hm) = "True" =>
        /\ ~hm'.df.none
        /\ (~PathSet(hm') \/ ~UvColumns(hm') \/ ~FaceTableNonEmpty(hm'))
              => has_texture(hm') = "False"

Reading(df, b) == IF df.none THEN "ValueError" ELSE IF b THEN "True" ELSE "False"

\* what the properties are worth on the attributes the mesh has now
OnPresentAttributes(mesh) ==
    [has_colors |->
        Reading(mesh.pcd.df,
                ColumnSet(mesh.pcd.df) \cap {"red", "green", "blue", "nir"} # {}),
     has_normals |->
        Reading(mesh.pcd.df, {"n_x", "n_y", "n_z"} \subseteq ColumnSet(mesh.pcd.df)),
     has_classes |->
        Reading(mesh.pcd.df, "classification" \in ColumnSet(mesh.pcd.df)),
     has_triangles |->
        Reading(mesh.df, {"p1", "p2", "p3"} \subseteq ColumnSet(mesh.df)
                            /\ FaceTableNonEmpty(mesh)),
     has_texture |->
        Reading(mesh.df, PathSet(mesh) /\ UvColumns(mesh) /\ FaceTableNonEmpty(mesh)),
     has_triangle_uvs |->
        Reading(mesh.df, UvColumns(mesh) /\ FaceTableNonEmpty(mesh))]

\* the properties just read are those of the attributes present
ReadCurrent == hres.op = "properties" => hres.value = OnPresentAttributes(hm)

\* reading the properties leaves the object as it was
ReadOnly == hres'.op = "properties" => hm' = hm

\* C14: after any sequence of set_df_from_vertices, set_df_colors,
\* set_df_normals, set_df_uvs and set_image_texture_path, each property
\* (has_colors, has_normals, has_classes, has_texture, has_triangle_uvs) is
\* the predicate on the attributes present at that moment, and reading a
\* property changes no state.
C14_PredicatesOnCurrentState == []ReadCurrent /\ [][ReadOnly]_vars

\* the properties read after colours were set and the path was given: the
\* colours show, the texture does not for want of UVs
C14_Witness ==
    /\ hres.op = "properties"
    /\ PathSet(hm) /\ ~UvColumns(hm)
    /\ hres.value.has_colors = "True" /\ hres.value.has_normals = "False"
    /\ hres.value.has_texture = "False"

ColourSet == {"red", "green", "blue", "nir"}

\* the place of a colour in the order red, green, blue, nir
ColourRank(c) ==
    CASE c = "red" -> 1 [] c = "green" -> 2 [] c = "blue" -> 3 [] c = "nir" -> 4
      [] OTHER -> 0

\* q lists the colour columns present in df, each once, in that order
PresentColoursInOrder(q, df) ==
    /\ { q[i] : i \in 1 .. Len(q) } = ColumnSet(df) \cap ColourSet
    /\ \A i, j \in 1 .. Len(q) : i < j => ColourRank(q[i]) < ColourRank(q[j])

\* what get_colors and get_normals gave
GettersAnswer ==
    /\ hres.op = "get_colors" =>
          IF ~hm.pcd.df.none /\ ColumnSet(hm.pcd.df) \cap ColourSet # {}
          THEN /\ hres.raised = ""
               /\ PresentColoursInOrder(hres.value.columns, hm.pcd.df)
               /\ hres.value.rows = hm.pcd.df.rows
          ELSE hres.raised = "ValueError"
    /\ hres.op = "get_normals" =>
          IF ~hm.pcd.df.none /\ {"n_x", "n_y", "n_z"} \subseteq ColumnSet(hm.pcd.df)
          THEN /\ hres.raised = ""
               /\ hres.value.columns = <<"n_x", "n_y", "n_z">>
               /\ hres.value.rows = hm.pcd.df.rows
          ELSE hres.raised = "ValueError"

\* the getters leave the object as it was
GettersReadOnly == hres'.op \in {"get_colors", "get_normals"} => hm' = hm

\* C15: get_colors raises when has_colors is false and get_normals raises
\* when has_normals is false; otherwise they return exactly the colour
\* columns present, in the order red, green, blue, nir, and the three normal
\* columns; neither changes the point cloud.
C15_GettersCheckAndOrder == []GettersAnswer /\ [][GettersReadOnly]_vars

\* get_colors on a frame where nir was added before red, green, blue
C15_Witness ==
    /\ hres.op = "get_colors"
    /\ hres.raised = ""
    /\ hres.value.columns = <<"red", "green", "blue", "nir">>
    /\ \E i, j \in 1 .. Len(hm.pcd.df.columns) :
          i < j /\ hm.pcd.df.columns[i] = "nir" /\ hm.pcd.df.columns[j] = "red"

\* the mesh has triangles: a face table with p1, p2, p3 and at least one row
WithTriangles(mesh) ==
    {"p1", "p2", "p3"} \subseteq ColumnSet(mesh.df) /\ FaceTableNonEmpty(mesh)

\* C16: get_triangles fails with an error whenever the mesh has no triangles
\* (face table absent, empty, or lacking p1, p2, p3) and returns nothing.
C16_GetTrianglesRaises ==
    (hres.op = "get_triangles" /\ ~WithTriangles(hm)) => hres.raised # ""

\* a setter call and its arguments
SetColorsBad(shape, color_names) ==
    \/ \E i \in 1 .. Len(color_names) : color_names[i] \notin ColourSet
    \/ shape.cols # Len(color_names)
SetNormalsBad(shape) == shape.cols # 3
SetUvsBad(shape, mesh) ==
    mesh.df.none \/ shape.rows # Len(mesh.df.rows) \/ shape.cols # 6

\* the arguments the claim lists are refused and nothing is stored
Rejects ==
    /\ (hres'.op = "set_df_colors" /\ SetColorsBad(hres'.args[1], hres'.args[2]))
          => (hres'.raised = "ValueError" /\ hm' = hm)
    /\ (hres'.op = "set_df_normals" /\ SetNormalsBad(hres'.args[1]))
          => (hres'.raised = "ValueError" /\ hm' = hm)
    /\ (hres'.op = "set_df_uvs" /\ SetUvsBad(hres'.args[1], hm))
          => (hres'.raised \in {"ValueError", "AttributeError"} /\ hm' = hm)

\* a setter stores the whole attribute or nothing
AllOrNothing ==
    /\ hres'.op \in {"set_df_colors", "set_df_normals", "set_df_uvs"}
          => (hres'.raised # "" => hm' = hm)
    /\ (hres'.op = "set_df_colors" /\ hres'.raised = "")
          => /\ ColumnSet(hm'.pcd.df)
                   = ColumnSet(hm.pcd.df)
                        \cup { hres'.args[2][i] : i \in 1 .. Len(hres'.args[2]) }
             /\ Len(hm'.pcd.df.rows) = hres'.args[1].rows
    /\ (hres'.op = "set_df_normals" /\ hres'.raised = "")
          => /\ ColumnSet(hm'.pcd.df) = ColumnSet(hm.pcd.df) \cup {"n_x", "n_y", "n_z"}
             /\ Len(hm'.pcd.df.rows) = hres'.args[1].rows
    /\ (hres'.op = "set_df_uvs" /\ hres'.raised = "")
          => /\ UvColumns(hm')
             /\ hm'.df.rows = hm.df.rows
             /\ Len(hm'.df.rows) = hres'.args[1].rows

\* C19: the setters refuse mismatched shapes with a validation error and
\* leave the data as it was: set_df_colors for a name out of red, green,
\* blue, nir or a number of columns that is not the number of names,
\* set_df_normals for an array that has not 3 columns, set_df_uvs for a
\* number of rows that is not the number of faces or a number of columns that
\* is not 6; no setter stores part of an attribute.
C19_SettersRejectMismatch == [][Rejects /\ AllOrNothing]_vars

\* three colour names refused for an array of one column of the right length
C19_Witness ==
    /\ hres.op = "set_df_colors"
    /\ hres.args[2] = <<"red", "green", "blue">>
    /\ hres.args[1].cols = 1
    /\ ~hm.pcd.df.none
    /\ hres.args[1].rows = Len(hm.pcd.df.rows)
    /\ hres.raised = "ValueError"
    /\ ColumnSet(hm.pcd.df) \cap ColourSet = {}

\* the face table holds an index that is no row position of the point cloud
IndexOutOfCloud(faces, pcd) ==
    \E i \in 1 .. Len(faces) : \E j \in 1 .. 3 :
        faces[i][j] < 0 \/ faces[i][j] >= Len(pcd.df.rows)

\* C20: a Mesh never accepts a face table with an index that is negative or
\* not smaller than the number of rows of its point cloud: setting it
\* (set_df_from_vertices) or converting it (set_o3d_mesh_from_df) is an error.
C20_FaceIndicesValidated ==
    /\ (/\ hres.op = "Mesh.set_df_from_vertices"
        /\ ~hm.pcd.df.none
        /\ IndexOutOfCloud(hres.args[1], hm.pcd)) => hres.raised # ""
    /\ (/\ hres.op = "set_o3d_mesh_from_df"
        /\ ~hm.pcd.df.none /\ ~hm.df.none
        /\ IndexOutOfCloud(hm.df.rows, hm.pcd)) => hres.raised # ""

(***************************************************************************)
(* Properties of the colours handed to open3d.                             *)
(***************************************************************************)
\* a conversion wrote a colour array
Wrote == o3d # <<>> /\ o3d.raised = ""

\* the value written for point i, channel j is the fraction a / b
WrittenIs(i, j, a, b) ==
    /\ ~o3d.colors[i][j].nan
    /\ o3d.colors[i][j].den > 0
    /\ o3d.colors[i][j].num * b = a * o3d.colors[i][j].den

InUnitInterval(f) == ~f.nan /\ f.den > 0 /\ 0 <= f.num /\ f.num <= f.den

\* C17 as stated: each of red, green, blue is normalised on its own: the
\* minimum of the channel is written 0 and its maximum 1, every value lies in
\* [0, 1], and a channel whose maximum is its minimum is written 0.
C17_PerChannel ==
    Wrote =>
        \A j \in 1 .. 3 :
            LET vals == { cdf.rows[i][j] : i \in 1 .. Len(cdf.rows) }
                constant == \A v, w \in vals : v = w
            IN  \A i \in 1 .. Len(cdf.rows) :
                    /\ InUnitInterval(o3d.colors[i][j])
                    /\ constant => WrittenIs(i, j, 0, 1)
                    /\ (~constant /\ \A v \in vals : cdf.rows[i][j] <= v)
                          => WrittenIs(i, j, 0, 1)
                    /\ (~constant /\ \A v \in vals : cdf.rows[i][j] >= v)
                          => WrittenIs(i, j, 1, 1)

\* C17 amended: the three channels are normalised together: with lo and hi
\* the least and the greatest of all the red, green and blue values of the
\* cloud, a value v is written (v - lo) / (hi - lo), so the least value of
\* the cloud is written 0, the greatest 1 and every value lies in [0, 1];
\* when hi = lo every value is written 0.
C17_JointNormalization ==
    Wrote =>
        LET vals == { cdf.rows[i][j] : i \in 1 .. Len(cdf.rows), j \in 1 .. 3 }
        IN  \A lo, hi \in vals :
                ((\A v \in vals : lo <= v) /\ (\A v \in vals : v <= hi)) =>
                    \A i \in 1 .. Len(cdf.rows), j \in 1 .. 3 :
                        /\ InUnitInterval(o3d.colors[i][j])
                        /\ IF hi = lo THEN WrittenIs(i, j, 0, 1)
                           ELSE WrittenIs(i, j, cdf.rows[i][j] - lo, hi - lo)

\* a green channel that is constant, between the least and the greatest
\* value of the cloud, and written 1/3
C17_Witness ==
    /\ Wrote
    /\ Len(cdf.rows) = 2
    /\ cdf.rows[1] = <<0, 1, 0>> /\ cdf.rows[2] = <<3, 1, 0>>
    /\ WrittenIs(1, 2, 1, 3) /\ WrittenIs(2, 2, 1, 3)
    /\ WrittenIs(1, 1, 0, 1) /\ WrittenIs(2, 1, 1, 1)

\* all the colour values of the cloud are one value
AllEqual ==
    \A i1, i2 \in 1 .. Len(cdf.rows), j1, j2 \in 1 .. 3 :
        cdf.rows[i1][j1] = cdf.rows[i2][j2]

\* C18: when all the colour values of the cloud are equal, the array written
\* by set_o3d_colors and set_o3d_vertex_colors is all zeros: the conversion
\* does not fail on a division by zero and writes no NaN.
C18_ConstantColoursGiveZeros ==
    (/\ o3d # <<>>
     /\ cdf.o3d_set /\ cdf.columns = <<"red", "green", "blue">> /\ cdf.rows # <<>>
     /\ AllEqual) =>
        /\ o3d.raised = ""
        /\ Len(o3d.colors) = Len(cdf.rows)
        /\ \A i \in 1 .. Len(cdf.rows), j \in 1 .. 3 :
              ~o3d.colors[i][j].nan /\ o3d.colors[i][j].num = 0

\* two points of the same non-zero grey, written as zeros
C18_Witness ==
    /\ Wrote
    /\ cdf.rows = <<<<3, 3, 3>>, <<3, 3, 3>>>>
    /\ \A i \in 1 .. 2, j \in 1 .. 3 : WrittenIs(i, j, 0, 1)

(***************************************************************************)
(* Properties of serialization and deserialization.                        *)
(***************************************************************************)
\* call i + 1 deserializes the path that call i serialized to in ply
RoundTripAt(i) ==
    /\ hres[i].op = "serialize"
    /\ hres[i].args[2] = "ply"
    /\ hres[i].raised = ""
    /\ hres[i + 1].op = "deserialize"
    /\ hres[i + 1].args[1] = hres[i].args[1]

\* C21: serializing a Mesh to a path in ply and then deserializing that path
\* yields a Mesh with the same number of vertices, the same number of faces
\* in a face table with columns p1, p2, p3, and the attribute columns that
\* were present.
C21_PlyRoundTrip ==
    \A i \in 1 .. Len(hres) - 1 :
        RoundTripAt(i) =>
            /\ hres[i + 1].raised = ""
            /\ LET before == hres[i].value[1]
                   after == hres[i + 1].value[1]
               IN  /\ Len(after.pcd) = Len(before.pcd)
                   /\ after.hasDf
                   /\ Len(after.faces) = Len(before.faces)
                   /\ after.face_columns = <<"p1", "p2", "p3">>
                   /\ ColumnSet(after) = ColumnSet(before)

\* filepath ends with "." and the extension
EndsWith(filepath, extension) ==
    /\ Len(filepath) > Len(extension)
    /\ SubSeq(filepath, Len(filepath) - Len(extension), Len(filepath)) = "." \o extension

\* the call this step adds to the calls made
Added == hres'[Len(hres')]

\* what serialize_mesh and deserialize_mesh refuse
RefusesExtensions ==
    Len(hres') = Len(hres) + 1 =>
        /\ (Added.op = "serialize" /\ ~EndsWith(Added.args[1], Added.args[2]))
              => (Added.raised = "ValueError" /\ disk' = disk)
        /\ (/\ Added.op = "serialize"
            /\ EndsWith(Added.args[1], Added.args[2])
            /\ Added.args[2] \notin {"ply", "csv"})
              => (Added.raised = "NotImplementedError" /\ disk' = disk)
        /\ (/\ Added.op = "serialize"
            /\ EndsWith(Added.args[1], Added.args[2])
            /\ Added.args[2] = "ply")
              => (Added.raised = "" /\ DOMAIN disk' # {})
        /\ (Added.op = "deserialize_mesh" /\ ~EndsWith(Added.args[1], "ply"))
              => Added.raised = "NotImplementedError"

\* C28: serialize_mesh raises ValueError and writes nothing when the
\* extension of filepath is not the extension asked for, raises
\* NotImplementedError and writes nothing for an extension other than ply
\* and csv, and deserialize_mesh raises NotImplementedError for an extension
\* other than ply.
C28_UnsupportedExtensions == [][RefusesExtensions]_vars

\* an obj file asked for under an obj path, and a csv path deserialized:
\* both refused, nothing on disk
C28_Witness ==
    /\ Len(hres) = 2
    /\ hres[1].op = "serialize" /\ hres[1].args = <<"/out/m.obj", "obj">>
    /\ hres[1].raised = "NotImplementedError"
    /\ hres[2].op = "deserialize_mesh" /\ hres[2].args = <<"/out/m.csv">>
    /\ hres[2].raised = "NotImplementedError"
    /\ disk = EmptyDisk

(***************************************************************************)
(* Properties of the processing functions.                                 *)
(***************************************************************************)
FilterOps == {"radius_filtering_outliers_o3", "statistical_filtering_outliers_o3d"}

\* a processing function leaves its argument as it was and returns a frame
\* of its own: the rows selected with every column, or every row with the
\* three normal columns added
LeavesInput ==
    /\ hres'.op \in FilterOps \cup {"compute_pcd_normals"} => hm' = hm
    /\ (hres'.op \in FilterOps /\ hres'.raised = "")
          => /\ hres'.value # <<>>
             /\ hres'.value[1].columns = hm.columns
             /\ \A i \in 1 .. Len(hres'.value[1].rows) :
                   \E j \in 1 .. Len(hm.rows) : hres'.value[1].rows[i] = hm.rows[j]
    /\ (hres'.op = "compute_pcd_normals" /\ hres'.raised = "")
          => /\ hres'.value # <<>>
             /\ hres'.value[1].rows = hm.rows
             /\ ColumnSet(hres'.value[1]) = ColumnSet(hm) \cup {"n_x", "n_y", "n_z"}

\* C22: a processing step never changes the entity it is given:
\* radius_filtering_outliers_o3, statistical_filtering_outliers_o3d and
\* compute_pcd_normals return a new data frame and leave the rows and the
\* columns of the input data frame as they were.
C22_StepsLeaveInput == [][LeavesInput]_vars

\* a filter returned fewer rows than the frame it was given still has
C22_Witness ==
    /\ hres.op = "radius_filtering_outliers_o3"
    /\ hres.raised = ""
    /\ Len(hres.value[1].rows) < Len(hm.rows)
    /\ hm.columns = <<"x", "y", "z", "red", "green", "blue">>
    /\ hres.value[1].columns = hm.columns

\* the rows of df but those at the positions listed
WithoutPositions(df, positions) ==
    LET kept == { i \in 1 .. Len(df.rows) : \A j \in 1 .. Len(positions) : positions[j] + 1 # i }
    IN  [i \in 1 .. Cardinality(kept) |->
            df.rows[CHOOSE p \in kept : Cardinality({ q \in kept : q < p }) = i - 1]]

\* C24: local_density_analysis returns the filtered point cloud: the input
\* data frame without the points whose outlier probability exceeds 0.6.
C24_DensityReturnsFiltered ==
    hres.op = "local_density_analysis" =>
        /\ hres.raised = ""
        /\ hres.value # <<>>
        /\ hres.value[1].columns = hm.columns
        /\ hres.value[1].rows = WithoutPositions(hm, hres.args[1])

\* C25: whatever the row labels of the input (those left by an earlier
\* filter included), the two filters return exactly the rows at the
\* positions the outlier removal reported as valid, and do not fail on the
\* row lookup.
C25_FiltersSelectByPosition ==
    (hres.op \in FilterOps /\ hres.args[1] # <<>>) =>
        /\ hres.raised = ""
        /\ hres.value[1].rows =
              [i \in 1 .. Len(hres.args[1]) |-> hm.rows[hres.args[1][i] + 1]]

(***************************************************************************)
(* The run of a filter followed by a meshing step.                         *)
(***************************************************************************)
\* the configured sequence is [filter, mesh] on a point cloud
FilterThenMesh ==
    /\ cfg.initial_state = "initial_pcd"
    /\ Len(cfg.state_machine) = 2
    /\ cfg.state_machine[1].action = "filter"
    /\ cfg.state_machine[2].action = "mesh"

C26_NewFrameDropsAttributes ==
    /\ hres.op = "set_df_from_vertices"
          => /\ hres.raised = ""
             /\ ColumnSet(hm.pcd.df) = {"x", "y", "z"}
             /\ has_colors(hm.pcd) = "False"
             /\ has_normals(hm.pcd) = "False"
             /\ has_classes(hm.pcd) = "False"
    /\ hres.op = "Mesh.set_df_from_vertices"
          => /\ hres.raised = ""
             /\ ColumnSet(hm.df) = {"p1", "p2", "p3"}
             /\ has_triangle_uvs(hm) = "False"
             /\ has_texture(hm) = "False"

\* the face table of a mesh was replaced while its texture path stays set
C26_Witness ==
    /\ hres.op = "Mesh.set_df_from_vertices"
    /\ hres.args[1] # <<>>
    /\ PathSet(hm)
    /\ has_texture(hm) = "False"
    /\ has_triangle_uvs(hm) = "False"

\* the colour channels the last conversion wrote
ChannelsWritten ==
    IF hres.op = "set_o3d_pcd_from_df" THEN hm.pcd.o3d_pcd[1].colors
    ELSE hm.o3d_mesh[1].vertex_colors

\* the conversion was given the frames and the columns it reads
Convertible ==
    /\ ~hm.pcd.df.none
    /\ hres.op = "set_o3d_mesh_from_df"
          => (~hm.df.none /\ {"p1", "p2", "p3"} \subseteq ColumnSet(hm.df))

\* C27: set_o3d_pcd_from_df and set_o3d_mesh_from_df raise ValueError
\* whenever has_colors is true but red, green or blue is missing (only nir
\* present, for one); they succeed with colours only when the three are
\* present, and nir is never written.
C27_ColoursNeedRgb ==
    (hres.op \in {"set_o3d_pcd_from_df", "set_o3d_mesh_from_df"} /\ Convertible) =>
        LET cols == ColumnSet(hm.pcd.df)
            coloured == cols \cap {"red", "green", "blue", "nir"} # {}
            rgb == {"red", "green", "blue"} \subseteq cols
        IN  /\ (coloured /\ ~rgb) => hres.raised = "ValueError"
            /\ hres.raised = ""
                  => /\ ChannelsWritten \in {<<>>, <<"red", "green", "blue">>}
                     /\ ChannelsWritten # <<>> <=> rgb
            /\ (rgb /\ hm.pcd.df.rows # <<>>) => hres.raised = ""

\* a cloud with nir as its only colour is refused
C27_Witness ==
    /\ hres.op = "set_o3d_pcd_from_df"
    /\ ColumnSet(hm.pcd.df) \cap {"red", "green", "blue", "nir"} = {"nir"}
    /\ hm.pcd.df.rows # <<>>
    /\ hres.raised = "ValueError"

====
